---- MODULE Spec2Model ----
(***************************************************************************)
(* Model of scripts/mitm_jsonl_writer.py: the JSONLFlowWriter addon (one   *)
(* open output file selected by the current task id, guarded by a Lock)    *)
(* and the TaskOutputHandler HTTP API that switches it.                    *)
(*                                                                         *)
(* Threads: the HTTP API thread (HTTPServer, one request at a time), the   *)
(* proxy threads that call response(), and the thread that calls done().   *)
(* A switch of the output file is one step per statement under the lock;  *)
(* the critical sections that only read, or that nothing can observe part  *)
(* of, are one step each. The write in response() runs after the lock is   *)
(* released and interleaves with the steps of the other threads.           *)
(***************************************************************************)
EXTENDS Naturals, Sequences, FiniteSets, TLC

\* Bounds of the model: calls of set_output_task / clear_output_task made,
\* flows observed.
MaxSwitches == 2
MaxFlows == 2

None == "None"
Missing == "Missing"
Tasks == {"t1", "t2"}
Workers == {"w1", "w2"}
ApiThread == "api"
MainThread == "main"

\* self.default_output_path
default_output_path == "/results/flows.jsonl"

\* task_output_path = f"/results/{task_id}/flows.jsonl"
TaskOutputPath(task_id) == "/results/" \o task_id \o "/flows.jsonl"

\* Path(file_path).parent
Parent(file_path) ==
    IF file_path = default_output_path
    THEN "/results"
    ELSE CHOOSE d \in {"/results/" \o t : t \in Tasks \cup {None, ""}} :
             d \o "/flows.jsonl" = file_path

VARIABLES
    current_task_id,    \* self.current_task_id: a task id or None
    current_file_path,  \* self.current_file_path
    file,               \* self.file: index into handles, 0 for None
    lock,               \* self.lock: the thread holding it, or None
    handles,            \* every file object opened so far: [path, closed]
    files,              \* the filesystem: path of each existing file -> its lines
    dirs,               \* the directories that exist
    api,                \* the HTTP API thread: its position and locals
    wrk,                \* the proxy threads inside response(): position and locals
    mainpc,             \* the thread calling done(): its position
    nextFlow,           \* the number of the next flow to be observed
    switches,           \* set_output_task / clear_output_task calls made so far
    dropped,            \* the errors response() caught: flow and exception
    lastCtl             \* the last finished set_output_task / clear_output_task

vars == <<current_task_id, current_file_path, file, lock, handles, files, dirs,
          api, wrk, mainpc, nextFlow, switches, dropped, lastCtl>>

NoFile == 0

\* What get_current_task returns in the current state.
TaskInfo == [task_id |-> current_task_id, output_path |-> current_file_path]

\* The router state: (task id, output path, installed stream).
RouterState == [task_id |-> current_task_id, output_path |-> current_file_path,
                file |-> file]

ApiIdle == [pc |-> "idle", op |-> None, task_id |-> None, file_path |-> None,
            raised |-> FALSE, status |-> 0, error |-> None, task_info |-> None,
            pre |-> None]

WrkIdle == [pc |-> "idle", flow |-> 0, current_task |-> None, file_handle |-> NoFile]

\* JSONLFlowWriter.__init__ has run: /results exists, the default file is open
\* (created empty by the open), no task is set.
Init ==
    /\ current_task_id = None
    /\ current_file_path = default_output_path
    /\ handles = <<[path |-> default_output_path, closed |-> FALSE]>>
    /\ file = 1
    /\ lock = None
    /\ files = [p \in {default_output_path} |-> <<>>]
    /\ dirs = {"/results"}
    /\ api = ApiIdle
    /\ wrk = [w \in Workers |-> WrkIdle]
    /\ mainpc = "idle"
    /\ nextFlow = 1
    /\ switches = 0
    /\ dropped = {}
    /\ lastCtl = [op |-> "init", task_id |-> None, raised |-> FALSE]


(***************************************************************************)
(* TaskOutputHandler: the request and what do_POST / do_GET make of it.    *)
(***************************************************************************)

\* Request bodies: none at all, a JSON object with or without "task_id"
\* (absent, null, "" or a task id), a JSON value that is no object, and text
\* that is not JSON.
Bodies ==
    {[kind |-> "empty", task_id |-> Missing],
     [kind |-> "array", task_id |-> Missing],
     [kind |-> "malformed", task_id |-> Missing]}
    \cup {[kind |-> "object", task_id |-> x] : x \in {Missing, None, ""} \cup Tasks}

RequestPaths == {"/set_output", "/clear_output", "/current_task", "/other"}

\* The requests the API thread is sent. do_GET reads no body.  Content-Length
\* is the length of the body ("valid"), or -1, with which rfile.read reads the
\* body to the end of the stream, or "invalid": no number, for which int()
\* raises, or a number below -1, for which rfile.read raises.
PostRequests ==
    {[path |-> p, content_length |-> c, body |-> b] :
        p \in RequestPaths, c \in {"valid", "-1"}, b \in Bodies}
    \cup {[path |-> p, content_length |-> "invalid",
           body |-> [kind |-> "empty", task_id |-> Missing]] : p \in RequestPaths}

\* Mutant of ParseRaises: text that is not JSON is read as {}.
ParseRaises_LenientBody(req) == req.content_length = "invalid"

\* int(self.headers.get('Content-Length', 0)), self.rfile.read(content_length)
\* and json.loads(body) if body else {} raise on a Content-Length that cannot
\* be read with and on text that is not JSON.
ParseRaises(req) ==
    \/ req.content_length = "invalid"
    \/ req.body.kind = "malformed"

\* data.get("task_id"): None when the key is absent; an AttributeError when
\* data is no dict.
GetRaises(req) == req.body.kind = "array"

DataGetTaskId(req) ==
    IF req.body.task_id = Missing THEN None ELSE req.body.task_id

\* Mutant of Truthy: the test `task_id is not None` in place of `task_id`.
Truthy_IsNotNone(x) == x # None

\* Python truth of a task id: None and "" are false.
Truthy(x) == x \notin {None, ""}

\* do_POST up to the call into the writer: where it goes next, with which
\* status when it answers at once, and the task id it passes on.
Answer(status, error) ==
    [pc |-> "respond", op |-> None, status |-> status, error |-> error,
     task_id |-> None]

Call(op, task_id) ==
    [pc |-> "lock", op |-> op, status |-> 0, error |-> None, task_id |-> task_id]

DoPostDispatch(req) ==
    IF ParseRaises(req)
    THEN Answer(500, None)
    ELSE IF req.path = "/set_output"
    THEN IF GetRaises(req)
         THEN Answer(500, None)
         ELSE IF Truthy(DataGetTaskId(req))
         THEN Call("set", DataGetTaskId(req))
         ELSE Answer(400, "task_id required")
    ELSE IF req.path = "/clear_output"
    THEN Call("clear", None)
    ELSE Answer(404, None)

\* Mutant of DoGetDispatch: the path is not looked at.
DoGetDispatch_AnyPath(path) == Call("get", None)

\* do_GET up to the call into the writer.
DoGetDispatch(path) ==
    IF path = "/current_task"
    THEN Call("get", None)
    ELSE Answer(404, None)

\* Mutant of StatusAfterCall: the exception is swallowed and 200 is sent.
StatusAfterCall_AlwaysOk(raised) == 200

\* The status do_POST / do_GET answer with after the writer call: 200 when it
\* returned, 500 from the except clause when it raised.
StatusAfterCall(raised) == IF raised THEN 500 ELSE 200

\* The task ids the state knows of.
MentionedTasks ==
    {t \in Tasks :
        \/ t \in {current_task_id, lastCtl.task_id}
        \/ Parent(TaskOutputPath(t)) \in dirs
        \/ \E w \in Workers : wrk[w].current_task = t}

\* Task ids are interchangeable: a request that names a task id the state
\* does not know of names the first such id.
FreshTask == IF "t1" \notin MentionedTasks THEN "t1" ELSE "t2"

do_POST(req) ==
    /\ api.pc = "idle"
    /\ mainpc = "idle"
    /\ LET d == DoPostDispatch(req) IN
       /\ d.task_id \in Tasks => d.task_id \in MentionedTasks \cup {FreshTask}
       /\ d.pc = "lock" => switches < MaxSwitches
       /\ api' = [ApiIdle EXCEPT !.pc = d.pc, !.op = d.op, !.status = d.status,
                                 !.error = d.error, !.task_id = d.task_id,
                                 !.pre = RouterState]
       /\ switches' = IF d.pc = "lock" THEN switches + 1 ELSE switches
    /\ UNCHANGED <<current_task_id, current_file_path, file, lock, handles, files,
                   dirs, wrk, mainpc, nextFlow, dropped, lastCtl>>

do_GET(path) ==
    /\ api.pc = "idle"
    /\ mainpc = "idle"
    /\ LET d == DoGetDispatch(path) IN
       api' = [ApiIdle EXCEPT !.pc = d.pc, !.op = d.op, !.status = d.status,
                              !.error = d.error, !.pre = RouterState]
    /\ UNCHANGED <<current_task_id, current_file_path, file, lock, handles, files,
                   dirs, wrk, mainpc, nextFlow, switches, dropped, lastCtl>>

\* The methods TaskOutputHandler defines no do_<command> for.
UnsupportedCommands == {"PUT", "DELETE"}

\* TaskOutputHandler inherits the dispatch of BaseHTTPRequestHandler: a
\* request whose method has no do_<command> is answered 501 by the library,
\* whatever its path, and no handler code runs.
handle_one_request(command, path) ==
    /\ api.pc = "idle"
    /\ mainpc = "idle"
    /\ command \in UnsupportedCommands
    /\ api' = [ApiIdle EXCEPT !.pc = "respond", !.status = 501,
                              !.pre = RouterState]
    /\ UNCHANGED <<current_task_id, current_file_path, file, lock, handles, files,
                   dirs, wrk, mainpc, nextFlow, switches, dropped, lastCtl>>


(***************************************************************************)
(* JSONLFlowWriter on the API thread: set_output_task, clear_output_task   *)
(* and get_current_task, statement by statement under the lock.            *)
(***************************************************************************)

\* Mutant of set_output_task_enter: the task id is not stored.
set_output_task_enter_KeepsTask ==
    /\ api.pc = "lock"
    /\ api.op = "set"
    /\ lock = None
    /\ lock' = ApiThread
    /\ api' = [api EXCEPT !.pc = "close", !.file_path = TaskOutputPath(api.task_id)]
    /\ UNCHANGED <<current_task_id, current_file_path, file, handles, files, dirs,
                   wrk, mainpc, nextFlow, switches, dropped, lastCtl>>

\* set_output_task: with self.lock: self.current_task_id = task_id;
\* task_output_path = f"/results/{task_id}/flows.jsonl"
set_output_task_enter ==
    /\ api.pc = "lock"
    /\ api.op = "set"
    /\ lock = None
    /\ lock' = ApiThread
    /\ current_task_id' = api.task_id
    /\ api' = [api EXCEPT !.pc = "close", !.file_path = TaskOutputPath(api.task_id)]
    /\ UNCHANGED <<current_file_path, file, handles, files, dirs,
                   wrk, mainpc, nextFlow, switches, dropped, lastCtl>>

\* Mutant of clear_output_task_enter: the task id is not reset.
clear_output_task_enter_KeepsTask ==
    /\ api.pc = "lock"
    /\ api.op = "clear"
    /\ lock = None
    /\ lock' = ApiThread
    /\ api' = [api EXCEPT !.pc = "close", !.file_path = default_output_path]
    /\ UNCHANGED <<current_task_id, current_file_path, file, handles, files, dirs,
                   wrk, mainpc, nextFlow, switches, dropped, lastCtl>>

\* clear_output_task: with self.lock: old_task_id = self.current_task_id;
\* self.current_task_id = None
clear_output_task_enter ==
    /\ api.pc = "lock"
    /\ api.op = "clear"
    /\ lock = None
    /\ lock' = ApiThread
    /\ current_task_id' = None
    /\ api' = [api EXCEPT !.pc = "close", !.file_path = default_output_path]
    /\ UNCHANGED <<current_file_path, file, handles, files, dirs,
                   wrk, mainpc, nextFlow, switches, dropped, lastCtl>>

\* Mutant of Close: the old file object is left open.
Close_LeavesOpen(hs, h) == hs

\* file.close(): the file object is closed; an exception it raises is swallowed.
Close(hs, h) ==
    IF h = NoFile THEN hs ELSE [hs EXCEPT ![h].closed = TRUE]

\* _open_file: if self.file is not None: self.file.close()
open_file_close ==
    /\ api.pc = "close"
    /\ handles' = Close(handles, file)
    /\ api' = [api EXCEPT !.pc = "mkdir"]
    /\ UNCHANGED <<current_task_id, current_file_path, file, lock, files, dirs,
                   wrk, mainpc, nextFlow, switches, dropped, lastCtl>>

\* _open_file: Path(file_path).parent.mkdir(parents=True, exist_ok=True).
\* It creates the missing directories, or raises (OSError, or ValueError for a
\* task id no path can hold) and _open_file is left through the exception.
open_file_mkdir ==
    /\ api.pc = "mkdir"
    /\ \/ /\ dirs' = dirs \cup {"/results", Parent(api.file_path)}
          /\ api' = [api EXCEPT !.pc = "open"]
       \/ /\ dirs' = dirs
          /\ api' = [api EXCEPT !.pc = "unlock", !.raised = TRUE]
    /\ UNCHANGED <<current_task_id, current_file_path, file, lock, handles, files,
                   wrk, mainpc, nextFlow, switches, dropped, lastCtl>>

\* Mutant of OpenAppend: mode "w", which empties the file.
OpenAppend_Truncate(fs, file_path) ==
    [p \in DOMAIN fs \cup {file_path} |-> IF p = file_path THEN <<>> ELSE fs[p]]

\* open(file_path, "a"): the file is created when missing, its content kept.
OpenAppend(fs, file_path) ==
    IF file_path \in DOMAIN fs
    THEN fs
    ELSE [p \in DOMAIN fs \cup {file_path} |->
             IF p = file_path THEN <<>> ELSE fs[p]]

\* _open_file: self.file = open(file_path, "a", buffering=1);
\* self.current_file_path = file_path. open raises when the file cannot be
\* opened, and then neither assignment happens.
open_file_open ==
    /\ api.pc = "open"
    /\ \/ /\ files' = OpenAppend(files, api.file_path)
          /\ handles' = Append(handles, [path |-> api.file_path, closed |-> FALSE])
          /\ file' = Len(handles) + 1
          /\ current_file_path' = api.file_path
          /\ api' = [api EXCEPT !.pc = "unlock"]
       \/ /\ api' = [api EXCEPT !.pc = "unlock", !.raised = TRUE]
          /\ UNCHANGED <<files, handles, file, current_file_path>>
    /\ UNCHANGED <<current_task_id, lock, dirs,
                   wrk, mainpc, nextFlow, switches, dropped, lastCtl>>

\* get_current_task: with self.lock: the dict it returns is read.
get_current_task_enter ==
    /\ api.pc = "lock"
    /\ api.op = "get"
    /\ lock = None
    /\ lock' = ApiThread
    /\ api' = [api EXCEPT !.pc = "unlock", !.task_info = TaskInfo]
    /\ UNCHANGED <<current_task_id, current_file_path, file, handles, files,
                   dirs, wrk, mainpc, nextFlow, switches, dropped, lastCtl>>

\* Mutant of LockAfterWith: the handler answers inside the with block.
LockAfterWith_Held(raised) == ApiThread

\* Mutant of LockAfterWith: acquire() and release() with no try/finally, so
\* that an exception skips the release.
LockAfterWith_HeldOnRaise(raised) == IF raised THEN ApiThread ELSE None

\* The holder of the lock once `with self.lock:` is left: the block releases
\* it on a return and on an exception alike.
LockAfterWith(raised) == None

\* The `with self.lock:` block is left, by return or by exception, and the
\* handler picks its status: 200 after a return, 500 in its except clause.
writer_release ==
    /\ api.pc = "unlock"
    /\ lock' = LockAfterWith(api.raised)
    /\ api' = [api EXCEPT !.pc = "respond", !.status = StatusAfterCall(api.raised)]
    /\ lastCtl' = IF api.op \in {"set", "clear"}
                  THEN [op |-> api.op, task_id |-> api.task_id, raised |-> api.raised]
                  ELSE lastCtl
    /\ UNCHANGED <<current_task_id, current_file_path, file, handles, files, dirs,
                   wrk, mainpc, nextFlow, switches, dropped>>

\* send_response / end_headers / wfile.write: the request is answered.
send_response ==
    /\ api.pc = "respond"
    /\ api' = ApiIdle
    /\ UNCHANGED <<current_task_id, current_file_path, file, lock, handles, files,
                   dirs, wrk, mainpc, nextFlow, switches, dropped, lastCtl>>

(***************************************************************************)
(* JSONLFlowWriter.response on the proxy threads.                          *)
(***************************************************************************)

\* The record response builds: task_id is added only if current_task is true.
Record(flow, current_task) ==
    [flow |-> flow, task_id |-> IF Truthy(current_task) THEN current_task ELSE None]

\* The proxy threads are interchangeable: a new callback runs on the first
\* thread that is free.
FreeThread == IF wrk["w1"].pc = "idle" THEN "w1" ELSE "w2"

\* The proxy calls response(flow) on thread w.
response_invoke(w) ==
    /\ wrk[w].pc = "idle"
    /\ w = FreeThread
    /\ nextFlow <= MaxFlows
    /\ mainpc = "idle"
    /\ wrk' = [wrk EXCEPT ![w] = [WrkIdle EXCEPT !.pc = "lock", !.flow = nextFlow]]
    /\ nextFlow' = nextFlow + 1
    /\ UNCHANGED <<current_task_id, current_file_path, file, lock, handles, files,
                   dirs, api, mainpc, switches, dropped, lastCtl>>

\* Mutant of response_snapshot: the two fields are read without the lock.
response_snapshot_NoLock(w) ==
    /\ wrk[w].pc = "lock"
    /\ wrk' = [wrk EXCEPT ![w].pc = "write",
                          ![w].current_task = current_task_id,
                          ![w].file_handle = file]
    /\ UNCHANGED <<current_task_id, current_file_path, file, lock, handles, files,
                   dirs, api, mainpc, nextFlow, switches, dropped, lastCtl>>

\* with self.lock: current_task = self.current_task_id; file_handle = self.file
\* The block only reads, and nothing else runs while the lock is held, so
\* taking the lock, the two reads and the release are one step.
response_snapshot(w) ==
    /\ wrk[w].pc = "lock"
    /\ lock = None
    /\ wrk' = [wrk EXCEPT ![w].pc = "write",
                          ![w].current_task = current_task_id,
                          ![w].file_handle = file]
    /\ UNCHANGED <<current_task_id, current_file_path, file, lock, handles, files,
                   dirs, api, mainpc, nextFlow, switches, dropped, lastCtl>>

\* file_handle.write raises on None (AttributeError) and on a closed file
\* (ValueError); response catches it and the record is not written.
WriteRaises(hs, h) == h = NoFile \/ hs[h].closed

\* file_handle.write(json_line + "\n"); file_handle.flush(): one line appended.
WriteLine(fs, file_path, line) ==
    [fs EXCEPT ![file_path] = Append(@, line)]

\* The exception the write raises: AttributeError on None, ValueError on a
\* closed file, and OSError when the write or the flush itself fails.
WriteError(hs, h) ==
    IF h = NoFile THEN "AttributeError"
    ELSE IF hs[h].closed THEN "ValueError" ELSE "OSError"

\* Without the except clause the exception leaves response(): the proxy gets
\* it from the callback.
Caught_Propagates(w, e) ==
    /\ dropped' = dropped
    /\ files' = files
    /\ wrk' = [wrk EXCEPT ![w].pc = "raised"]

\* except Exception as e: print(...): the error is logged, nothing is written
\* and response returns normally.
Caught(w, e) ==
    /\ dropped' = dropped \cup {[flow |-> wrk[w].flow, error |-> e]}
    /\ files' = files
    /\ wrk' = [wrk EXCEPT ![w] = WrkIdle]

\* The record is built and written outside the lock; response returns.  The
\* write to an open file appends the line, or fails (OSError) and appends
\* nothing.
response_write(w) ==
    /\ wrk[w].pc = "write"
    /\ \/ /\ ~WriteRaises(handles, wrk[w].file_handle)
          /\ files' = WriteLine(files, handles[wrk[w].file_handle].path,
                                Record(wrk[w].flow, wrk[w].current_task))
          /\ dropped' = dropped
          /\ wrk' = [wrk EXCEPT ![w] = WrkIdle]
       \/ Caught(w, WriteError(handles, wrk[w].file_handle))
    /\ UNCHANGED <<current_task_id, current_file_path, file, lock, handles, dirs,
                   api, mainpc, nextFlow, switches, lastCtl>>

(***************************************************************************)
(* JSONLFlowWriter.done at shutdown.                                       *)
(***************************************************************************)

\* The proxy calls done().
done_invoke ==
    /\ mainpc = "idle"
    /\ mainpc' = "lock"
    /\ UNCHANGED <<current_task_id, current_file_path, file, lock, handles, files,
                   dirs, api, wrk, nextFlow, switches, dropped, lastCtl>>

\* with self.lock: if self.file is not None: self.file.close(); self.file = None
\* Nothing else runs while the lock is held, so the block is one step.
done_close ==
    /\ mainpc = "lock"
    /\ lock = None
    /\ handles' = Close(handles, file)
    /\ file' = NoFile
    /\ mainpc' = "done"
    /\ UNCHANGED <<current_task_id, current_file_path, lock, files, dirs,
                   api, wrk, nextFlow, switches, dropped, lastCtl>>

Next ==
    \/ \E req \in PostRequests : do_POST(req)
    \/ \E path \in RequestPaths : do_GET(path)
    \/ \E command \in UnsupportedCommands, path \in RequestPaths :
          handle_one_request(command, path)
    \/ set_output_task_enter
    \/ clear_output_task_enter
    \/ open_file_close
    \/ open_file_mkdir
    \/ open_file_open
    \/ get_current_task_enter
    \/ writer_release
    \/ send_response
    \/ \E w \in Workers :
        \/ response_invoke(w)
        \/ response_snapshot(w)
        \/ response_write(w)
    \/ done_invoke
    \/ done_close

Spec == Init /\ [][Next]_vars


(***************************************************************************)
(* Sequential runs: each control request, each response() callback and     *)
(* done() finishes before the next operation starts.                       *)
(***************************************************************************)

BusyThreads ==
    {t \in {ApiThread} : api.pc # "idle"}
    \cup {w \in Workers : wrk[w].pc # "idle"}
    \cup {t \in {MainThread} : mainpc = "lock"}

\* An operation starts only when no other is in progress; the steps of the
\* operation in progress are those of Next.
SeqNext ==
    \/ BusyThreads = {} /\ \E req \in PostRequests : do_POST(req)
    \/ BusyThreads = {} /\ \E path \in RequestPaths : do_GET(path)
    \/ BusyThreads = {} /\ \E command \in UnsupportedCommands, path \in RequestPaths :
          handle_one_request(command, path)
    \/ BusyThreads = {} /\ \E w \in Workers : response_invoke(w)
    \/ BusyThreads = {} /\ done_invoke
    \/ set_output_task_enter
    \/ clear_output_task_enter
    \/ open_file_close
    \/ open_file_mkdir
    \/ open_file_open
    \/ get_current_task_enter
    \/ writer_release
    \/ send_response
    \/ \E w \in Workers :
        \/ response_snapshot(w)
        \/ response_write(w)
    \/ done_close

SeqSpec == Init /\ [][SeqNext]_vars

\* The steps of the API thread once it has a request: a handler that has
\* started runs on.
ApiThreadStep ==
    \/ set_output_task_enter
    \/ clear_output_task_enter
    \/ get_current_task_enter
    \/ open_file_close
    \/ open_file_mkdir
    \/ open_file_open
    \/ writer_release
    \/ send_response

\* Fair scheduling: every thread that can run does run (weak fairness), and a
\* thread that waits for the lock gets it if the lock is free again and again
\* (strong fairness of the acquiring steps).  Requests, flows and the call
\* of done() come from outside and need not come at all.
FairSpec ==
    /\ Spec
    /\ WF_vars(ApiThreadStep)
    /\ \A w \in Workers : SF_vars(response_snapshot(w)) /\ WF_vars(response_write(w))
    /\ SF_vars(done_close)

(***************************************************************************)
(* Definitions the properties are stated with.                             *)
(***************************************************************************)

\* The path a task id implies: the task's file, or the default file for None.
ImpliedPath(task_id) ==
    IF task_id = None THEN default_output_path ELSE TaskOutputPath(task_id)

\* The flows whose response() callback has returned.
Returned == {f \in 1..(nextFlow - 1) : \A w \in Workers : wrk[w].flow # f}

\* The places (file, line number) at which flow f's record stands.
Places(f) ==
    {x \in UNION {{<<p, i>> : i \in DOMAIN files[p]} : p \in DOMAIN files} :
        files[x[1]][x[2]].flow = f}

\* The file objects that are open.
OpenHandles == {h \in DOMAIN handles : ~handles[h].closed}

\* The installed stream is open and writes to file_path.
Installed(file_path) ==
    /\ file # NoFile
    /\ ~handles[file].closed
    /\ handles[file].path = file_path

\* A set_output_task or clear_output_task call is inside its critical section.
Switching == api.op \in {"set", "clear"} /\ lock = ApiThread

IsPrefix(s, t) == Len(s) <= Len(t) /\ SubSeq(t, 1, Len(s)) = s

(***************************************************************************)
(* C1. Every record produced is written to some output file exactly once,  *)
(* under every interleaving of switches with response callbacks: before   *)
(* shutdown, once response(flow) has returned, the flow's record stands in *)
(* exactly one place of the output files, unless its write hit an I/O      *)
(* error.                                                                  *)
(***************************************************************************)
C1_EveryRecordWrittenExactlyOnce ==
    mainpc = "idle"
    => \A f \in Returned :
          [flow |-> f, error |-> "OSError"] \notin dropped
          => Cardinality(Places(f)) = 1

(***************************************************************************)
(* C2. When mkdir or open fails during set_output_task / clear_output_task *)
(* the previous router state stays authoritative: once the failed call has *)
(* returned, task id, output path and stream are those of before the       *)
(* request, and that stream is still open.                                 *)
(***************************************************************************)
C2_FailedSwitchKeepsPreviousState ==
    (api.pc = "respond" /\ api.op \in {"set", "clear"} /\ api.raised
     /\ mainpc = "idle")
    => (RouterState = api.pre /\ Installed(api.pre.output_path))

(***************************************************************************)
(* C3. Whenever the lock is free (so that get_current_task or the snapshot *)
(* of response can run), the installed stream's path is the path implied   *)
(* by the current task id, and so is the reported output path.             *)
(***************************************************************************)
C3_StateNeverTorn ==
    (lock = None /\ file # NoFile)
    => (/\ handles[file].path = ImpliedPath(current_task_id)
        /\ current_file_path = ImpliedPath(current_task_id))

(***************************************************************************)
(* C4. POST /set_output answers 200 only if the switch completed (the new  *)
(* task id and its stream are installed: the stream is open unless done()  *)
(* has closed it since), and answers 500 when mkdir or open failed.        *)
(***************************************************************************)
C4_SetOutputOkOnlyIfSwitched ==
    (api.pc = "respond" /\ api.op = "set")
    => (/\ api.status = 200 =>
              /\ current_task_id = api.task_id
              /\ current_file_path = TaskOutputPath(api.task_id)
              /\ \/ Installed(TaskOutputPath(api.task_id))
                 \/ mainpc = "done" /\ file = NoFile
        /\ api.raised => api.status = 500)

\* A failed set_output_task has been answered, after it had stored its task id.
C4_Witness ==
    /\ api.pc = "respond" /\ api.op = "set" /\ api.raised /\ api.status = 500
    /\ current_task_id = api.task_id

(***************************************************************************)
(* C5. After set_output_task(t) has returned, and until another            *)
(* set_output_task / clear_output_task enters its critical section,        *)
(* get_current_task returns task_id = t and                                *)
(* output_path = /results/<t>/flows.jsonl.                                 *)
(***************************************************************************)
C5_SnapshotAfterSet ==
    (lastCtl.op = "set" /\ ~lastCtl.raised /\ ~Switching)
    => (/\ TaskInfo = [task_id |-> lastCtl.task_id,
                       output_path |-> TaskOutputPath(lastCtl.task_id)]
        /\ (api.op = "get" /\ api.pc \in {"unlock", "respond"})
              => api.task_info = TaskInfo)

\* GET /current_task is answered after a second switch, a set_output_task that
\* returned.
C5_Witness ==
    /\ lastCtl.op = "set" /\ ~lastCtl.raised /\ switches = 2
    /\ api.op = "get" /\ api.pc = "respond" /\ api.status = 200

(***************************************************************************)
(* C6. After clear_output_task has returned, and until another             *)
(* set_output_task / clear_output_task enters its critical section,        *)
(* get_current_task returns task_id = None and                             *)
(* output_path = /results/flows.jsonl.                                     *)
(***************************************************************************)
C6_SnapshotAfterClear ==
    (lastCtl.op = "clear" /\ ~lastCtl.raised /\ ~Switching)
    => (/\ TaskInfo = [task_id |-> None, output_path |-> default_output_path]
        /\ (api.op = "get" /\ api.pc \in {"unlock", "respond"})
              => api.task_info = TaskInfo)

\* GET /current_task is answered after a clear_output_task that followed
\* another switch and returned.
C6_Witness ==
    /\ lastCtl.op = "clear" /\ ~lastCtl.raised /\ switches = 2
    /\ api.op = "get" /\ api.pc = "respond" /\ api.status = 200

(***************************************************************************)
(* C7. POST /set_output with a missing or empty task_id (no body, {}, a    *)
(* null or "" task_id) is answered 400 'task_id required' without calling  *)
(* the writer, and the router state is as before the request when the      *)
(* answer is sent.                                                         *)
(***************************************************************************)
NoTaskIdRequests ==
    {req \in PostRequests :
        /\ req.path = "/set_output"
        /\ req.content_length = "valid"
        /\ req.body.kind \in {"empty", "object"}
        /\ req.body.task_id \in {Missing, None, ""}}

C7_MissingTaskIdRejected ==
    /\ [][\A req \in NoTaskIdRequests :
             do_POST(req) => /\ api'.pc = "respond"
                             /\ api'.status = 400
                             /\ api'.error = "task_id required"
                             /\ RouterState' = RouterState
                             /\ handles' = handles]_vars
    /\ []((api.pc = "respond" /\ api.status = 400 /\ mainpc = "idle")
            => (RouterState = api.pre /\ lock = None))

\* A request without task id is being answered while a task is active.
C7_Witness ==
    /\ api.pc = "respond" /\ api.status = 400
    /\ current_task_id \in Tasks

(***************************************************************************)
(* C8. In a sequential run every observed flow is routed by the task       *)
(* active at its observation: its record is appended to the default file   *)
(* without task_id when no task is active, and to /results/<t>/flows.jsonl *)
(* with task_id = t when task t is active, unless its write hit an I/O     *)
(* error.                                                                  *)
(***************************************************************************)
C8_SequentialRouting ==
    [][\A w \in Workers :
          (response_write(w)
           /\ [flow |-> wrk[w].flow, error |-> "OSError"] \notin dropped')
          => /\ ImpliedPath(current_task_id) \in DOMAIN files
             /\ files'[ImpliedPath(current_task_id)]
                  = Append(files[ImpliedPath(current_task_id)],
                           [flow |-> wrk[w].flow, task_id |-> current_task_id])]_vars

(***************************************************************************)
(* C9. Output files are append-only: no step removes a file or changes the *)
(* lines it holds, so every file's content in a later state extends its    *)
(* content in every earlier state.                                         *)
(***************************************************************************)
C9_AppendOnly ==
    [][\A p \in DOMAIN files :
          p \in DOMAIN files' /\ IsPrefix(files[p], files'[p])]_vars

\* set_output_task with the id that is already current has reopened a file
\* that holds lines.
C9_Witness ==
    /\ api.pc = "unlock" /\ api.op = "set" /\ ~api.raised
    /\ lastCtl.op = "set" /\ lastCtl.task_id = api.task_id /\ ~lastCtl.raised
    /\ files[api.file_path] # <<>>

(***************************************************************************)
(* C10. Between construction and shutdown exactly one output stream is     *)
(* open whenever no thread is inside the critical section.                 *)
(***************************************************************************)
C10_ExactlyOneStreamOpen ==
    (lock = None /\ mainpc = "idle") => Cardinality(OpenHandles) = 1

(***************************************************************************)
(* C11. response never propagates an error to the proxy: a failing write   *)
(* (an I/O error, a closed stream, no stream) is caught, the callback      *)
(* returns normally, only that flow's record is dropped, the router state  *)
(* and the streams are unchanged, and the thread takes later flows.        *)
(***************************************************************************)
C11_ResponseNeverRaises ==
    /\ [](\A w \in Workers : wrk[w].pc \in {"idle", "lock", "write"})
    /\ [][\A w \in Workers :
             (wrk[w].pc = "write" /\ wrk'[w] # wrk[w])
             => /\ wrk'[w] = WrkIdle
                /\ RouterState' = RouterState
                /\ handles' = handles
                /\ lock' = lock
                /\ \A v \in Workers \ {w} : wrk'[v] = wrk[v]
                /\ \/ dropped' = dropped /\ files' # files
                   \/ /\ files' = files
                      /\ \E e \in {"AttributeError", "ValueError", "OSError"} :
                            dropped' = dropped \cup
                                         {[flow |-> wrk[w].flow, error |-> e]}]_vars

\* A write to a closed stream was caught, and a later flow's record is written.
C11_Witness ==
    \E d \in dropped :
        /\ d.error = "ValueError"
        /\ \E f \in Returned : f > d.flow /\ Places(f) # {}

(***************************************************************************)
(* C12. Records are written in the order the observations arrive: flows    *)
(* are numbered in the order response() is invoked, and in every output    *)
(* file the lines stand in increasing flow number, also when the callbacks *)
(* run on different threads and overlap.                                   *)
(***************************************************************************)
C12_LinesInArrivalOrder ==
    \A p \in DOMAIN files :
        \A i, j \in DOMAIN files[p] :
            i < j => files[p][i].flow < files[p][j].flow

\* The request is answered with status, before any call into the writer, and
\* nothing but the handler's position has changed.
AnsweredAtOnce(status) ==
    /\ api'.pc = "respond"
    /\ api'.status = status
    /\ UNCHANGED <<current_task_id, current_file_path, file, lock, handles,
                   files, dirs, wrk, lastCtl>>

\* The POST requests whose Content-Length and body parse.
ParsedPostRequests ==
    {req \in PostRequests :
        req.content_length # "invalid" /\ req.body.kind # "malformed"}

(***************************************************************************)
(* C13. Every control request other than POST /set_output,                 *)
(* POST /clear_output and GET /current_task (an unknown path, a known path *)
(* with another method) is answered 404 and changes nothing.               *)
(***************************************************************************)
C13_OtherRequests404 ==
    [][(api.pc = "idle" /\ api'.pc # "idle")
       => /\ \A req \in PostRequests :
               (req.path \notin {"/set_output", "/clear_output"} /\ do_POST(req))
               => AnsweredAtOnce(404)
          /\ \A path \in RequestPaths \ {"/current_task"} :
               do_GET(path) => AnsweredAtOnce(404)
          /\ \A command \in UnsupportedCommands, path \in RequestPaths :
               handle_one_request(command, path) => AnsweredAtOnce(404)]_vars

(***************************************************************************)
(* C13, amended. A GET of a path other than /current_task, and a POST to a *)
(* path other than /set_output and /clear_output whose Content-Length and  *)
(* body parse, are answered 404; such a POST whose Content-Length or body  *)
(* does not parse is answered 500, and a request with a method other than  *)
(* GET and POST is answered 501.  None of them changes anything, and the   *)
(* router state is as before the request when the 404 is sent.             *)
(***************************************************************************)
C13_OtherRequestsChangeNothing ==
    /\ [][(api.pc = "idle" /\ api'.pc # "idle")
          => /\ \A req \in PostRequests :
                  (req.path \notin {"/set_output", "/clear_output"}
                   /\ do_POST(req))
                  => IF req \in ParsedPostRequests
                     THEN AnsweredAtOnce(404) ELSE AnsweredAtOnce(500)
             /\ \A path \in RequestPaths \ {"/current_task"} :
                  do_GET(path) => AnsweredAtOnce(404)
             /\ \A command \in UnsupportedCommands, path \in RequestPaths :
                  handle_one_request(command, path) => AnsweredAtOnce(501)]_vars
    /\ []((api.pc = "respond" /\ api.status \in {404, 501} /\ mainpc = "idle")
            => (RouterState = api.pre /\ lock = None))

\* An unroutable request is being answered 404 while a task is active.
C13_Witness ==
    /\ api.pc = "respond" /\ api.status = 404
    /\ current_task_id \in Tasks

(***************************************************************************)
(* C14. Every mutation of the router state (set_output_task,               *)
(* clear_output_task, done) and every read of it (get_current_task, the    *)
(* snapshot of response) runs holding the one lock: a step changes task    *)
(* id, path, stream or the open streams only as a step of the thread that  *)
(* holds or takes the lock, and while one thread is inside its section no  *)
(* other thread reads the fields or enters a section.                      *)
(***************************************************************************)
C14_LockDiscipline ==
    /\ [](lock \in {None, ApiThread})
    /\ [][/\ (RouterState' # RouterState \/ handles' # handles)
             => \/ lock = ApiThread /\ api' # api
                \/ lock = None /\ lock' = ApiThread /\ api' # api
                \/ lock = None /\ lock' = None
                   /\ mainpc = "lock" /\ mainpc' = "done"
          /\ \A w \in Workers :
                (wrk[w].pc = "lock" /\ wrk'[w].pc = "write")
                => /\ lock = None /\ lock' = None
                   /\ wrk'[w].current_task = current_task_id
                   /\ wrk'[w].file_handle = file
          /\ (mainpc = "lock" /\ mainpc' = "done") => lock = None
          /\ (api.op = "get" /\ api.pc = "lock" /\ api'.pc # "lock")
                => (lock = None /\ lock' = ApiThread /\ api'.task_info = TaskInfo)
          /\ lock = ApiThread
                => /\ \A w \in Workers : wrk'[w].pc = "write" => wrk'[w] = wrk[w]
                   /\ mainpc' = "done" => mainpc = "done"]_vars

\* A switch is part-way (new task id stored, old stream closed) while a
\* response callback and done() wait for the lock.
C14_Witness ==
    /\ Switching /\ api.pc = "mkdir"
    /\ \E w \in Workers : wrk[w].pc = "lock"
    /\ mainpc = "lock"

(***************************************************************************)
(* C15. A control request whose body is malformed JSON or a JSON value     *)
(* that is no object, or whose Content-Length is no number or negative, is *)
(* answered 500 before it reaches the writer and has no effect: router     *)
(* state, streams and files are unchanged.                                 *)
(***************************************************************************)
C15_BadRequests500 ==
    [][(api.pc = "idle" /\ api'.pc # "idle")
       => \A req \in PostRequests :
             (/\ \/ req.content_length # "valid"
                 \/ req.body.kind \in {"malformed", "array"}
              /\ do_POST(req))
             => AnsweredAtOnce(500)]_vars

\* The requests do_POST raises for before it calls the writer: a
\* Content-Length that is no number or is below -1, a body that is not JSON,
\* and on /set_output a JSON body that is no object.
InternalFailureRequests ==
    {req \in PostRequests :
        \/ req.content_length = "invalid"
        \/ req.body.kind = "malformed"
        \/ req.path = "/set_output" /\ req.body.kind = "array"}

(***************************************************************************)
(* C15, amended. A POST whose Content-Length is no number or below -1, or  *)
(* whose body is not JSON, or, on /set_output, whose JSON body is no       *)
(* object, is answered 500 before it reaches the writer and has no effect: *)
(* router state, streams and files are unchanged, and the router state is  *)
(* as before the request when the 500 is sent.                             *)
(***************************************************************************)
C15_InternalFailure500 ==
    /\ [][(api.pc = "idle" /\ api'.pc # "idle")
          => \A req \in InternalFailureRequests :
                do_POST(req) => AnsweredAtOnce(500)]_vars
    /\ []((api.pc = "respond" /\ api.status = 500 /\ api.op = None
           /\ mainpc = "idle")
            => (RouterState = api.pre /\ lock = None))

\* A request that failed before the writer is being answered 500 while a
\* task is active and a flow is about to be written to the task's stream.
C15_Witness ==
    /\ api.pc = "respond" /\ api.status = 500 /\ api.op = None
    /\ current_task_id \in Tasks
    /\ Installed(TaskOutputPath(current_task_id))
    /\ \E w \in Workers : wrk[w].pc = "write" /\ wrk[w].file_handle = file

(***************************************************************************)
(* C16. done() closes the installed stream under the lock, and a switch in *)
(* progress when done() is called finishes first, so that its new stream   *)
(* is the one closed: once done() has completed no output stream is open.  *)
(***************************************************************************)
C16_NoStreamOpenAfterDone ==
    mainpc = "done" => OpenHandles = {}

(***************************************************************************)
(* C17. The control-plane handler never holds the writer lock while it     *)
(* does network I/O: the request is read and parsed before the lock is     *)
(* taken and the HTTP response is written after the lock is released, for  *)
(* /set_output, /clear_output and /current_task alike.                     *)
(***************************************************************************)
C17_NoNetworkIoUnderLock ==
    /\ [](api.pc \in {"idle", "lock", "respond"} => lock # ApiThread)
    /\ [][(\/ api.pc = "idle" /\ api'.pc # "idle"
           \/ api.pc = "respond" /\ api'.pc = "idle")
          => (lock # ApiThread /\ lock' # ApiThread)]_vars

\* The answer to a set_output_task that returned is still to be sent, and a
\* response callback has already taken the lock and read the new task.
C17_Witness ==
    /\ api.pc = "respond" /\ api.op = "set" /\ api.status = 200
    /\ \E w \in Workers :
          /\ wrk[w].pc = "write"
          /\ wrk[w].current_task = api.task_id
          /\ wrk[w].file_handle = file

\* The API thread is in set_output_task(t) called with t already the current
\* task, or in clear_output_task called with no task active.
RepeatedSwitch ==
    \/ api.op = "set" /\ api.pre.task_id = api.task_id
    \/ api.op = "clear" /\ api.pre.task_id = None

(***************************************************************************)
(* C18. Switches are idempotent on the logical state: set_output_task(t)   *)
(* with t already current, and clear_output_task with no task active,      *)
(* change the lines of no output file, and when the call has returned      *)
(* get_current_task reports what it reported before the call.              *)
(***************************************************************************)
C18_RepeatedSwitchIdempotent ==
    [][(RepeatedSwitch /\ api' # api)
       => /\ \A p \in DOMAIN files : p \in DOMAIN files' /\ files'[p] = files[p]
          /\ api'.pc = "respond"
               => TaskInfo' = [task_id |-> api.pre.task_id,
                               output_path |-> api.pre.output_path]]_vars

(***************************************************************************)
(* C19. No record is misfiled, whatever the interleaving of control        *)
(* requests, failing ones included, with response callbacks: every line of *)
(* /results/<t>/flows.jsonl carries task_id t, and every line of the       *)
(* default file carries no task_id.                                        *)
(***************************************************************************)
C19_NeverMisfiled ==
    \A p \in DOMAIN files :
        \A i \in DOMAIN files[p] : p = ImpliedPath(files[p][i].task_id)

\* The default file and a task's file both hold a line, and the last switch
\* failed.
C19_Witness ==
    /\ files[default_output_path] # <<>>
    /\ \E t \in Tasks :
          /\ TaskOutputPath(t) \in DOMAIN files
          /\ files[TaskOutputPath(t)] # <<>>
    /\ lastCtl.raised

(***************************************************************************)
(* C20. The lock is released on every path, also when mkdir or open raises *)
(* inside set_output_task / clear_output_task, and under fair scheduling   *)
(* no thread waits for it forever: every control request is answered,      *)
(* every response callback returns, and done() completes.                  *)
(***************************************************************************)
C20_NoThreadWaitsForever ==
    /\ []((api.pc = "respond" /\ api.raised) => lock = None)
    /\ (api.pc # "idle") ~> (api.pc = "idle")
    /\ \A w \in Workers : (wrk[w].pc # "idle") ~> (wrk[w].pc = "idle")
    /\ (mainpc = "lock") ~> (mainpc = "done")

\* A switch has failed and left its section while a response callback and
\* done() were waiting for the lock.
C20_Witness ==
    /\ api.pc = "respond" /\ api.op \in {"set", "clear"} /\ api.raised
    /\ lock = None
    /\ \E w \in Workers : wrk[w].pc = "lock"
    /\ mainpc = "lock"

====
